---- MODULE Spec2Model ----
(***************************************************************************)
(* A model of duologsync's consumption / checkpoint pipeline:              *)
(*   - Consumer.consume, format_log, update_log_checkpoint  (consumer.py)  *)
(*   - get_log_offset, restless_sleep                       (util.py)      *)
(*   - get_syslog_header                           (consumer/syslog.py)    *)
(*   - LogSyncBase.start                           (duo_log_sync_base.py)  *)
(* Python None and optional values are modelled as the empty tuple <<>>,   *)
(* a present value v as <<v>>.  JSON values are tagged records, text is a  *)
(* sequence of one-character strings.                                      *)
(***************************************************************************)
EXTENDS Integers, Sequences, FiniteSets, TLC

VARIABLES
    config,     \* the loaded configuration (enabled endpoints, log format, child ids)
    orch,       \* position of LogSyncBase.start
    running,    \* Program's process-wide running flag
    prod,       \* per pair: state of the Producer task
    cons,       \* per pair: the Consumer object and the position of its consume() task
    queue,      \* per pair: contents of the asyncio.Queue shared by the pair
    fs,         \* the checkpoint directory: path -> file content
    hist,       \* per pair: history of what the Consumer did (observation only)
    enq,        \* per pair: history of the batches the Producer enqueued (observation only)
    nextTs,     \* per pair: timestamp of the next record the upstream API yields
    last,       \* the last operation that changed the checkpoint directory (observation only)
    nops,       \* number of operations that changed the checkpoint directory in SpecCkpt
    rd,         \* the last get_log_offset call and its outcome (observation only)
    hdr,        \* the last get_syslog_header call and its outcome (observation only)
    slp         \* the restless_sleep call in progress

vars == <<config, orch, running, prod, cons, queue, fs, hist, enq, nextTs, last, nops, rd,
          hdr, slp>>

----------------------------------------------------------------------------
(* Bounds of the model *)

\* number of batches the Producers enqueue, all together, while the program is running
MaxBatches == 3
\* largest number of records in one batch
MaxBatchLen == 3
\* number of operations on the checkpoint directory explored by SpecCkpt
MaxOps == 2
\* number of records the Producers enqueue, all together
MaxRecords == 6

----------------------------------------------------------------------------
(* Optional values *)

None == <<>>
Some(v) == <<v>>

\* Python truthiness of an optional string: None and '' are both falsy
Truthy(opt) == opt # None /\ opt[1] # ""

----------------------------------------------------------------------------
(* JSON values and json.dumps / json.loads on them *)

JNull == [null |-> TRUE]
JInt(n) == [int |-> n]
JStr(cs) == [str |-> cs]
JList(xs) == [list |-> xs]

IsNull(v) == DOMAIN v = {"null"}
IsInt(v) == DOMAIN v = {"int"}
IsStr(v) == DOMAIN v = {"str"}
IsList(v) == DOMAIN v = {"list"}

DigitChars == <<"0", "1", "2", "3", "4", "5", "6", "7", "8", "9">>
IsDigit(ch) == \E d \in 1..10 : DigitChars[d] = ch
DigitVal(ch) == (CHOOSE d \in 1..10 : DigitChars[d] = ch) - 1
IsSpace(ch) == ch \in {" ", "\n", "\t", "\r"}

RECURSIVE NatText(_)
NatText(n) ==
    IF n < 10 THEN <<DigitChars[n + 1]>>
    ELSE NatText(n \div 10) \o <<DigitChars[(n % 10) + 1]>>

IntText(n) == IF n < 0 THEN <<"-">> \o NatText(0 - n) ELSE NatText(n)

RECURSIVE JoinTexts(_, _)
JoinTexts(texts, sep) ==
    IF texts = <<>> THEN <<>>
    ELSE IF Len(texts) = 1 THEN texts[1]
    ELSE texts[1] \o sep \o JoinTexts(Tail(texts), sep)

\* json.dumps with the default separators (', ' between list items)
RECURSIVE JsonDumps(_)
JsonDumps(v) ==
    IF IsNull(v) THEN <<"n", "u", "l", "l">>
    ELSE IF IsInt(v) THEN IntText(v.int)
    ELSE IF IsStr(v) THEN <<"\"">> \o v.str \o <<"\"">>
    ELSE <<"[">> \o JoinTexts([j \in 1..Len(v.list) |-> JsonDumps(v.list[j])], <<",", " ">>)
               \o <<"]">>

RECURSIVE SkipSpace(_)
SkipSpace(t) == IF t # <<>> /\ IsSpace(Head(t)) THEN SkipSpace(Tail(t)) ELSE t

IsPrefix(p, t) == Len(p) <= Len(t) /\ SubSeq(t, 1, Len(p)) = p
Drop(t, n) == SubSeq(t, n + 1, Len(t))

ParseFail == [ok |-> FALSE]
ParseOk(v, rest) == [ok |-> TRUE, val |-> v, rest |-> rest]

\* the digits of a number after its first digit
RECURSIVE ScanDigits(_, _)
ScanDigits(t, acc) ==
    IF t # <<>> /\ IsDigit(Head(t)) THEN ScanDigits(Tail(t), acc * 10 + DigitVal(Head(t)))
    ELSE [val |-> acc, rest |-> t]

\* the JSON number grammar: -?(0|[1-9][0-9]*)
ScanNat(t) ==
    IF t = <<>> \/ ~ IsDigit(Head(t)) THEN ParseFail
    ELSE IF Head(t) = "0" THEN ParseOk(0, Tail(t))
    ELSE LET d == ScanDigits(t, 0) IN ParseOk(d.val, d.rest)

\* the characters of a string up to its closing quote
RECURSIVE ScanString(_, _)
ScanString(t, acc) ==
    IF t = <<>> \/ Head(t) = "\n" \/ Head(t) = "\\" THEN ParseFail
    ELSE IF Head(t) = "\"" THEN ParseOk(JStr(acc), Tail(t))
    ELSE ScanString(Tail(t), Append(acc, Head(t)))

RECURSIVE ParseValue(_), ParseItems(_, _)
ParseValue(t0) ==
    LET t == SkipSpace(t0) IN
    IF t = <<>> THEN ParseFail
    ELSE IF IsPrefix(<<"n", "u", "l", "l">>, t) THEN ParseOk(JNull, Drop(t, 4))
    ELSE IF Head(t) = "-" THEN
        LET n == ScanNat(Tail(t)) IN
        IF n.ok THEN ParseOk(JInt(0 - n.val), n.rest) ELSE ParseFail
    ELSE IF IsDigit(Head(t)) THEN
        LET n == ScanNat(t) IN ParseOk(JInt(n.val), n.rest)
    ELSE IF Head(t) = "\"" THEN ScanString(Tail(t), <<>>)
    ELSE IF Head(t) = "[" THEN
        LET u == SkipSpace(Tail(t)) IN
        IF u # <<>> /\ Head(u) = "]" THEN ParseOk(JList(<<>>), Tail(u))
        ELSE ParseItems(u, <<>>)
    ELSE ParseFail

ParseItems(t, acc) ==
    LET item == ParseValue(t) IN
    IF ~ item.ok THEN ParseFail
    ELSE LET u == SkipSpace(item.rest) IN
         IF u = <<>> THEN ParseFail
         ELSE IF Head(u) = "]" THEN ParseOk(JList(Append(acc, item.val)), Tail(u))
         ELSE IF Head(u) = "," THEN ParseItems(Tail(u), Append(acc, item.val))
         ELSE ParseFail

\* json.loads: [ret |-> value], or [raises |-> "JSONDecodeError"] on text that is
\* not exactly one JSON document
JsonLoads(text) ==
    LET p == ParseValue(text) IN
    IF p.ok /\ SkipSpace(p.rest) = <<>> THEN [ret |-> p.val]
    ELSE [raises |-> "JSONDecodeError"]

Returns(r) == DOMAIN r = {"ret"}
Raises(r) == DOMAIN r = {"raises"}

----------------------------------------------------------------------------
(* Configuration *)

AUTH == "auth"
CEF == "CEF"
JSON == "JSON"

CheckpointDir == "checkpoints"
\* Config.get_api_offset(): the configured default starting offset, in seconds
ApiOffset == 7
milliseconds_per_second == 1000

----------------------------------------------------------------------------
(* The checkpoint store: files of the checkpoint directory *)

NoFiles == [p \in {} |-> <<>>]

\* os.path.join of a directory and a relative file name
PathJoin(dir, name) == dir \o "/" \o name

\* open(path, 'a'): the file is created when missing, its content is kept
OpenAppend(files, path) ==
    [p \in DOMAIN files \cup {path} |-> IF p \in DOMAIN files THEN files[p] ELSE <<>>]

\* open(path, 'w'): the file is created when missing and truncated otherwise
OpenTruncate(files, path) ==
    [p \in DOMAIN files \cup {path} |-> IF p = path THEN <<>> ELSE files[p]]

\* file.write(text) followed by close()
FileWrite(files, path, text) == [files EXCEPT ![path] = @ \o text]

\* faulty variant: the child account id is left out of the file name
WriteCheckpointPathUntagged(log_type, child_account_id) ==
    PathJoin(CheckpointDir, log_type \o "_checkpoint_data.txt")

\* the path update_log_checkpoint writes to
WriteCheckpointPath(log_type, child_account_id) ==
    IF Truthy(child_account_id)
    THEN PathJoin(CheckpointDir, log_type \o "_checkpoint_data_" \o child_account_id[1] \o ".txt")
    ELSE PathJoin(CheckpointDir, log_type \o "_checkpoint_data.txt")

\* Consumer.update_log_checkpoint: the checkpoint directory after the call
UpdateLogCheckpoint(files, log_type, log_offset, child_account_id) ==
    LET checkpoint_filename == WriteCheckpointPath(log_type, child_account_id) IN
    FileWrite(OpenTruncate(files, checkpoint_filename), checkpoint_filename,
              JsonDumps(log_offset) \o <<"\n">>)

\* the path get_log_offset reads from
ReadCheckpointPath(checkpoint_directory, log_type, child_account_id) ==
    IF Truthy(child_account_id)
    THEN PathJoin(checkpoint_directory,
                  log_type \o "_checkpoint_data_" \o child_account_id[1] \o ".txt")
    ELSE PathJoin(checkpoint_directory, log_type \o "_checkpoint_data.txt")

\* the default offset get_log_offset starts from
DefaultOffset(log_type) ==
    IF log_type = AUTH THEN ApiOffset * milliseconds_per_second ELSE ApiOffset

\* util.get_log_offset: [ret |-> offset] or [raises |-> exception].  Opening a
\* missing file raises FileNotFoundError, an OSError, which is caught; an error
\* of json.loads is a ValueError, which the except clause does not catch.
GetLogOffset(files, log_type, recover_log_offset, checkpoint_directory, child_account_id) ==
    LET checkpoint_file_path ==
            ReadCheckpointPath(checkpoint_directory, log_type, child_account_id)
    IN  IF ~ recover_log_offset THEN [ret |-> JInt(DefaultOffset(log_type))]
        ELSE IF checkpoint_file_path \notin DOMAIN files
             THEN [ret |-> JInt(DefaultOffset(log_type))]
             ELSE JsonLoads(files[checkpoint_file_path])

----------------------------------------------------------------------------
(* Log records, the Producer's offset extraction and the Formatter *)

\* the upstream record with the given timestamp
Record(ts) == [timestamp |-> ts]

\* faulty variant: the record is passed on as enqueued whatever the id
StampMissing(log, child_account_id) == log

\* log['child_account_id'] = self.child_account_id, done only for a truthy id
Stamp(log, child_account_id) ==
    IF Truthy(child_account_id)
    THEN [f \in DOMAIN log \cup {"child_account_id"} |->
             IF f = "child_account_id" THEN child_account_id[1] ELSE log[f]]
    ELSE log

\* Producer.get_log_offset(log): the offset of a record, of None when no record
\* was written
ExtractOffset(last_log_written) ==
    IF last_log_written = None THEN JNull ELSE JInt(last_log_written[1].timestamp)

\* Consumer.format_log: [ret |-> the encoded line] or [raises |-> "ValueError"]
FormatLog(log_format, log) ==
    IF log_format = CEF THEN [ret |-> [encoding |-> "cef", payload |-> log, end |-> "\n"]]
    ELSE IF log_format = JSON
         THEN [ret |-> [encoding |-> "json", payload |-> log, end |-> "\n"]]
         ELSE [raises |-> "ValueError"]

----------------------------------------------------------------------------
(* Consumer.consume.  One consumer step runs from one suspension point (the  *)
(* queue wait, an awaited Writer.write) to the next.  A step works on the    *)
(* part of the state the consumer can touch:                                 *)
(*   c: the Consumer object and task position, q: its queue, fs, running,    *)
(*   h: the history of what it did.                                          *)

\* Consumer.__init__, with the stream type its subclass sets
NewConsumer(log_format, log_type, child_account_id) ==
    [pc |-> "start", log_format |-> log_format, log_type |-> log_type,
     child_account_id |-> child_account_id, log_offset |-> JNull,
     logs |-> <<>>, idx |-> 0, last_log_written |-> None, successful_write |-> FALSE]

NoHistory == [got |-> <<>>, flog |-> <<>>, wlog |-> <<>>, ckpt |-> <<>>, shut |-> <<>>]

View(i) == [c |-> cons[i], q |-> queue[i], fs |-> fs, running |-> running, h |-> hist[i]]

\* the number of the batch in progress, counted in the order of dequeuing
Batch(s) == Len(s.h.got)

\* asyncio.Queue.get on a non-empty queue: the oldest item (faulty variant: the newest)
QueueGetNewest(q) == [item |-> q[Len(q)], rest |-> SubSeq(q, 1, Len(q) - 1)]
QueueGet(q) == [item |-> Head(q), rest |-> Tail(q)]

\* "if not Program.is_running(): continue" after the queue wait
\* (faulty variant: the check is missing)
ShutdownOnWakeMissing(is_running) == FALSE
ShutdownOnWake(is_running) == ~ is_running

\* "if logs:" (faulty variant: the check is missing)
HasLogsMissing(logs) == TRUE
HasLogs(logs) == logs # <<>>

\* last_log_written after the awaited write of log ended: the assignment follows
\* the await, so it is skipped when the write raised
\* (faulty variant: the assignment precedes the await)
LastLogAttempted(last_log_written, log, write_ok) == Some(log)
LastLogWritten(last_log_written, log, write_ok) ==
    IF write_ok THEN Some(log) ELSE last_log_written

\* "except BrokenPipeError": the exceptions the handler catches
\* (faulty variant: it catches nothing)
CatchesNothing(error) == FALSE
Catches(error) == error = "BrokenPipeError"

\* Program.initiate_shutdown(reason)
InitiateShutdown(s) ==
    [s EXCEPT !.running = FALSE, !.h.shut = Append(@, Batch(s))]

\* faulty variant of the finally block: a requested shutdown pre-empts the
\* checkpoint of the batch in progress
FinallyUnlessShutdown(s) ==
    IF ~ s.running THEN s
    ELSE LET off == ExtractOffset(s.c.last_log_written)
             files == UpdateLogCheckpoint(s.fs, s.c.log_type, off, s.c.child_account_id)
         IN [s EXCEPT !.c.log_offset = off, !.fs = files,
                      !.h.ckpt = Append(@, [batch |-> Batch(s), offset |-> off,
                          stored |-> files[WriteCheckpointPath(s.c.log_type, s.c.child_account_id)]])]

\* faulty variant of the finally block: nothing is saved when no record of the
\* batch was written
FinallyUnlessNothingWritten(s) ==
    IF s.c.last_log_written = None THEN s
    ELSE LET off == ExtractOffset(s.c.last_log_written)
             files == UpdateLogCheckpoint(s.fs, s.c.log_type, off, s.c.child_account_id)
         IN [s EXCEPT !.c.log_offset = off, !.fs = files,
                      !.h.ckpt = Append(@, [batch |-> Batch(s), offset |-> off,
                          stored |-> files[WriteCheckpointPath(s.c.log_type, s.c.child_account_id)]])]

\* the finally block: compute the offset of the last written record and save it
Finally(s) ==
    LET off == ExtractOffset(s.c.last_log_written)
        files == UpdateLogCheckpoint(s.fs, s.c.log_type, off, s.c.child_account_id)
    IN [s EXCEPT !.c.log_offset = off, !.fs = files,
                 !.h.ckpt = Append(@, [batch |-> Batch(s), offset |-> off,
                     stored |-> files[WriteCheckpointPath(s.c.log_type, s.c.child_account_id)]])]

RECURSIVE LoopTest(_), AfterGet(_), ForLoop(_, _)

\* "while Program.is_running():" and the call of log_queue.get(), which suspends
\* only when the queue is empty
LoopTest(s) ==
    IF ~ s.running THEN [s EXCEPT !.c.pc = "terminated"]
    ELSE IF s.q = <<>> THEN [s EXCEPT !.c.pc = "waiting"]
    ELSE AfterGet(s)

\* from the return of log_queue.get() to the start of the batch
AfterGet(s) ==
    LET g == QueueGet(s.q)
        s1 == [s EXCEPT !.q = g.rest, !.c.logs = g.item,
                        !.h.got = Append(@, [logs |-> g.item, run |-> s.running])]
    IN  IF ShutdownOnWake(s1.running) THEN LoopTest(s1)
        ELSE LET s2 == [s1 EXCEPT !.c.last_log_written = None,
                                  !.c.successful_write = FALSE]
             IN IF HasLogs(g.item) THEN ForLoop(s2, 1) ELSE LoopTest(s2)

\* "for log in logs:" from record k on, up to the awaited write of a record
ForLoop(s, k) ==
    IF k > Len(s.c.logs)
    THEN LoopTest(Finally([s EXCEPT !.c.successful_write = TRUE]))
    ELSE LET log == Stamp(s.c.logs[k], s.c.child_account_id)
             s1 == [s EXCEPT !.c.logs[k] = log, !.c.idx = k,
                             !.h.flog = Append(@, [batch |-> Batch(s), log |-> log])]
             formatted == FormatLog(s.c.log_format, log)
         IN IF Raises(formatted)
            THEN IF Catches(formatted.raises)
                 THEN LoopTest(Finally(InitiateShutdown(s1)))
                 ELSE [Finally(s1) EXCEPT !.c.pc = "raised"]
            ELSE [s1 EXCEPT !.c.pc = "writing",
                            !.h.wlog = Append(@, [batch |-> Batch(s), pos |-> k, log |-> log,
                                                  data |-> formatted.ret, res |-> "pending",
                                                  run |-> s.running])]

\* the awaited Writer.write returned
OnWriteOk(s) ==
    LET log == s.c.logs[s.c.idx]
        s1 == [s EXCEPT !.c.last_log_written = LastLogWritten(@, log, TRUE),
                        !.h.wlog[Len(s.h.wlog)].res = "ok"]
    IN ForLoop(s1, s.c.idx + 1)

\* the awaited Writer.write raised error
OnWriteError(s, error) ==
    LET log == s.c.logs[s.c.idx]
        s1 == [s EXCEPT !.c.last_log_written = LastLogWritten(@, log, FALSE),
                        !.h.wlog[Len(s.h.wlog)].res = error]
    IN IF Catches(error)
       THEN LoopTest(Finally(InitiateShutdown(s1)))
       ELSE [Finally(s1) EXCEPT !.c.pc = "raised"]

----------------------------------------------------------------------------
(* LogSyncBase.start *)

Recognized == {"auth", "telephony", "adminaction"}

\* the Writer start() creates once, before the loop over the endpoints
TheWriter == "writer"

\* the loop stops at the first endpoint it does not recognize
\* (faulty variant: break instead of continue)
RECURSIVE ScheduleTasksUntilUnknown(_, _)
ScheduleTasksUntilUnknown(enabled_endpoints, n) ==
    IF n = 0 THEN <<>>
    ELSE LET tasks == ScheduleTasksUntilUnknown(enabled_endpoints, n - 1) IN
         IF /\ enabled_endpoints[n] \in Recognized
            /\ \A m \in 1..n : enabled_endpoints[m] \in Recognized
         THEN tasks \o <<[kind |-> "producer", pair |-> n,
                          endpoint |-> enabled_endpoints[n], queue |-> n],
                         [kind |-> "consumer", pair |-> n,
                          endpoint |-> enabled_endpoints[n], queue |-> n,
                          writer |-> TheWriter]>>
         ELSE tasks

\* the for loop over the enabled endpoints: the tasks in the order scheduled.
\* Iteration n creates queue n; a pair is identified by the position of its
\* endpoint in the list, and each task records the endpoint, the queue and
\* (the Consumer) the Writer its object was constructed with
RECURSIVE ScheduleTasks(_, _)
ScheduleTasks(enabled_endpoints, n) ==
    IF n = 0 THEN <<>>
    ELSE LET tasks == ScheduleTasks(enabled_endpoints, n - 1) IN
         IF enabled_endpoints[n] \in Recognized
         THEN tasks \o <<[kind |-> "producer", pair |-> n,
                          endpoint |-> enabled_endpoints[n], queue |-> n],
                         [kind |-> "consumer", pair |-> n,
                          endpoint |-> enabled_endpoints[n], queue |-> n,
                          writer |-> TheWriter]>>
         ELSE tasks

PairsOf(tasks) == {tasks[j].pair : j \in 1..Len(tasks)}

TaskState(t) == IF t.kind = "producer" THEN prod[t.pair] ELSE cons[t.pair].pc
TaskDone(t) == TaskState(t) \in {"terminated", "raised"}

\* asyncio.gather(*tasks) without return_exceptions: its future is done when
\* every task has ended, or as soon as one task has ended with an exception
GatherResult(tasks) == \A j \in 1..Len(tasks) : TaskState(tasks[j]) = "terminated"
GatherException(tasks) == \E j \in 1..Len(tasks) : TaskState(tasks[j]) = "raised"

Pairs == DOMAIN cons

\* start() up to run_until_complete: one queue, Producer and Consumer per
\* recognized endpoint, both scheduled on the loop
Start ==
    /\ orch.pc = "init"
    /\ LET tasks == ScheduleTasks(config.enabled, Len(config.enabled))
           P == PairsOf(tasks)
       IN /\ orch' = [pc |-> "running", tasks |-> tasks]
          /\ prod' = [i \in P |-> "running"]
          /\ cons' = [i \in P |-> NewConsumer(config.log_format, config.enabled[i],
                                              config.children[i])]
          /\ queue' = [i \in P |-> <<>>]
          /\ hist' = [i \in P |-> NoHistory]
          /\ enq' = [i \in P |-> <<>>]
          /\ nextTs' = [i \in P |-> 1]
    /\ UNCHANGED <<config, running, fs, last, nops, rd, hdr, slp>>

\* run_until_complete returns the gathered results; the loop is closed
GatherReturn ==
    /\ orch.pc = "running"
    /\ GatherResult(orch.tasks)
    /\ orch' = [orch EXCEPT !.pc = "returned"]
    /\ UNCHANGED <<config, running, prod, cons, queue, fs, hist, enq, nextTs, last, nops, rd, hdr, slp>>

\* run_until_complete re-raises the exception of the first failed task; the loop
\* stops running whatever the state of the other tasks
GatherRaise ==
    /\ orch.pc = "running"
    /\ GatherException(orch.tasks)
    /\ orch' = [orch EXCEPT !.pc = "raised"]
    /\ UNCHANGED <<config, running, prod, cons, queue, fs, hist, enq, nextTs, last, nops, rd, hdr, slp>>

----------------------------------------------------------------------------
(* The Producer of a pair *)

\* the records of a sequence of batches, in order
RECURSIVE Flatten(_)
Flatten(batches) == IF batches = <<>> THEN <<>> ELSE Head(batches) \o Flatten(Tail(batches))

\* the batches put on the queues while the program was running
RECURSIVE SumLen(_, _)
SumLen(f, S) ==
    IF S = {} THEN 0
    ELSE LET i == CHOOSE j \in S : TRUE IN Len(f[i]) + SumLen(f, S \ {i})
Produced == SumLen(enq, {i \in DOMAIN enq : prod[i] = "running"})
             + SumLen(enq, {i \in DOMAIN enq : prod[i] # "running"})
             - Cardinality({i \in DOMAIN enq : prod[i] # "running"})

\* the records put on the queues so far, all streams together
Enqueued == SumLen([i \in DOMAIN enq |-> Flatten(enq[i])], DOMAIN enq)

\* the batch sizes explored: empty, one record, the largest
BatchLens == {0, 1, MaxBatchLen}

\* a batch of n records fetched from the upstream API is put on the queue
Produce(i, n) ==
    /\ orch.pc = "running" /\ prod[i] = "running" /\ running
    /\ Produced < MaxBatches
    /\ Enqueued + n <= MaxRecords
    /\ n \in BatchLens
    /\ LET logs == [j \in 1..n |-> Record(nextTs[i] + j - 1)] IN
       /\ queue' = [queue EXCEPT ![i] = Append(@, logs)]
       /\ enq' = [enq EXCEPT ![i] = Append(@, logs)]
    /\ nextTs' = [nextTs EXCEPT ![i] = @ + n]
    /\ UNCHANGED <<config, orch, running, prod, cons, fs, hist, last, nops, rd, hdr, slp>>

\* the Producer observes shutdown: it unblocks its Consumer with an empty batch
\* and ends
ProducerStop(i) ==
    /\ orch.pc = "running" /\ prod[i] = "running" /\ ~ running
    /\ queue' = [queue EXCEPT ![i] = Append(@, <<>>)]
    /\ enq' = [enq EXCEPT ![i] = Append(@, <<>>)]
    /\ prod' = [prod EXCEPT ![i] = "terminated"]
    /\ UNCHANGED <<config, orch, running, cons, fs, hist, nextTs, last, nops, rd, hdr, slp>>

----------------------------------------------------------------------------
(* The steps of a Consumer task *)

Commit(i, s) ==
    /\ cons' = [cons EXCEPT ![i] = s.c]
    /\ queue' = [queue EXCEPT ![i] = s.q]
    /\ fs' = s.fs
    /\ running' = s.running
    /\ hist' = [hist EXCEPT ![i] = s.h]
    /\ UNCHANGED <<config, orch, prod, enq, nextTs, last, nops, rd, hdr, slp>>

\* the task runs for the first time
ConsumerStart(i) ==
    /\ orch.pc = "running" /\ cons[i].pc = "start"
    /\ Commit(i, LoopTest(View(i)))

\* the queue wait ends: a batch has been put on the queue
ConsumerWake(i) ==
    /\ orch.pc = "running" /\ cons[i].pc = "waiting" /\ queue[i] # <<>>
    /\ Commit(i, AfterGet(View(i)))

\* the Writer finishes the write in flight
WriteOk(i) ==
    /\ orch.pc = "running" /\ cons[i].pc = "writing"
    /\ Commit(i, OnWriteOk(View(i)))

WriteErrors == {"BrokenPipeError", "ConnectionResetError"}

\* the Writer fails the write in flight
WriteFail(i, error) ==
    /\ orch.pc = "running" /\ cons[i].pc = "writing"
    /\ Commit(i, OnWriteError(View(i), error))

----------------------------------------------------------------------------
(* The pipeline *)

LogFormats == {CEF, JSON, "XML"}
EnabledChoices == {<<"auth", "telephony">>, <<"syslog", "auth">>}
ChildChoices == {<<Some("c1"), None>>}

Init ==
    /\ config \in [enabled : EnabledChoices, log_format : LogFormats, children : ChildChoices]
    /\ orch = [pc |-> "init", tasks |-> <<>>]
    /\ running = TRUE
    /\ prod = <<>> /\ cons = <<>> /\ queue = <<>> /\ hist = <<>> /\ enq = <<>> /\ nextTs = <<>>
    /\ fs = NoFiles
    /\ last = None /\ nops = 0 /\ rd = None
    /\ hdr = None /\ slp = None

Next ==
    \/ Start
    \/ GatherReturn
    \/ GatherRaise
    \/ \E i \in Pairs, n \in BatchLens : Produce(i, n)
    \/ \E i \in Pairs : ProducerStop(i)
    \/ \E i \in Pairs : ConsumerStart(i)
    \/ \E i \in Pairs : ConsumerWake(i)
    \/ \E i \in Pairs : WriteOk(i)
    \/ \E i \in Pairs, error \in WriteErrors : WriteFail(i, error)

Spec == Init /\ [][Next]_vars

----------------------------------------------------------------------------
(* The checkpoint store on its own: checkpoints are written, a write is cut  *)
(* short by a crash, and a later run of the program reads them back          *)

LogTypes == {"auth", "telephony"}
ChildIds == {None, Some(""), Some("c1")}
Offsets == {JNull, JInt(0), JInt(12345), JList(<<JInt(105), JStr(<<"t", "x">>)>>)}

\* update_log_checkpoint(log_type, log_offset, child_account_id)
CkptWrite(log_type, child_account_id, log_offset) ==
    /\ nops < MaxOps
    /\ fs' = UpdateLogCheckpoint(fs, log_type, log_offset, child_account_id)
    /\ last' = Some([op |-> "write", log_type |-> log_type, child |-> child_account_id,
                     offset |-> log_offset,
                     over |-> WriteCheckpointPath(log_type, child_account_id) \in DOMAIN fs])
    /\ nops' = nops + 1
    /\ rd' = None
    /\ UNCHANGED <<config, orch, running, prod, cons, queue, hist, enq, nextTs, hdr, slp>>

\* update_log_checkpoint is cut short by a crash of the process after the file
\* was opened (and truncated) and n characters reached the disk
CkptCrash(log_type, child_account_id, log_offset, n) ==
    /\ nops < MaxOps
    /\ LET path == WriteCheckpointPath(log_type, child_account_id)
           text == JsonDumps(log_offset) \o <<"\n">>
       IN /\ n < Len(text)
          /\ fs' = FileWrite(OpenTruncate(fs, path), path, SubSeq(text, 1, n))
    /\ last' = Some([op |-> "crash", log_type |-> log_type, child |-> child_account_id])
    /\ nops' = nops + 1
    /\ rd' = None
    /\ UNCHANGED <<config, orch, running, prod, cons, queue, hist, enq, nextTs, hdr, slp>>

\* get_log_offset(log_type, recover_log_offset, checkpoint directory, child_account_id),
\* explored once for each state of the checkpoint directory
CkptRead(log_type, recover_log_offset, child_account_id) ==
    /\ rd = None
    /\ LET path == ReadCheckpointPath(CheckpointDir, log_type, child_account_id) IN
       rd' = Some([log_type |-> log_type, child |-> child_account_id,
                   recover |-> recover_log_offset,
                   content |-> IF path \in DOMAIN fs THEN Some(fs[path]) ELSE None,
                   result |-> GetLogOffset(fs, log_type, recover_log_offset,
                                           CheckpointDir, child_account_id)])
    /\ UNCHANGED <<config, orch, running, prod, cons, queue, fs, hist, enq, nextTs, last, nops, hdr, slp>>

InitCkpt ==
    /\ config = [enabled |-> <<>>, log_format |-> JSON, children |-> <<>>]
    /\ orch = [pc |-> "init", tasks |-> <<>>]
    /\ running = TRUE
    /\ prod = <<>> /\ cons = <<>> /\ queue = <<>> /\ hist = <<>> /\ enq = <<>> /\ nextTs = <<>>
    /\ fs = NoFiles
    /\ last = None /\ nops = 0 /\ rd = None
    /\ hdr = None /\ slp = None

NextCkpt ==
    \/ \E t \in LogTypes, c \in ChildIds, off \in Offsets : CkptWrite(t, c, off)
    \/ \E t \in LogTypes, c \in ChildIds, off \in Offsets, n \in {0, 1} : CkptCrash(t, c, off, n)
    \/ \E t \in LogTypes, c \in ChildIds, r \in BOOLEAN : CkptRead(t, r, c)

SpecCkpt == InitCkpt /\ [][NextCkpt]_vars

----------------------------------------------------------------------------
(* Reading the histories *)

\* the writes, Formatter calls and checkpoint writes of pair i during its batch b
Writes(i, b) == SelectSeq(hist[i].wlog, LAMBDA w : w.batch = b)
OkWrites(i, b) == SelectSeq(hist[i].wlog, LAMBDA w : w.batch = b /\ w.res = "ok")
Formats(i, b) == SelectSeq(hist[i].flog, LAMBDA f : f.batch = b)
Checkpoints(i, b) == SelectSeq(hist[i].ckpt, LAMBDA e : e.batch = b)
Shutdowns(i, b) == SelectSeq(hist[i].shut, LAMBDA x : x = b)

LastLog(ws) == IF ws = <<>> THEN None ELSE Some(ws[Len(ws)].log)
Failed(w) == w.res \notin {"ok", "pending"}

\* the offset a later run reads back from a stored checkpoint text
StoredOffset(text) == JsonLoads(text)

PathOf(i) == WriteCheckpointPath(cons[i].log_type, cons[i].child_account_id)

\* batch b of pair i is no longer being processed
BatchOver(i, b) == b < Len(hist[i].got) \/ cons[i].pc # "writing"

----------------------------------------------------------------------------
(* Claims about Consumer.consume *)

\* C1 as stated: after a non-empty batch, the checkpoint holds the offset of the
\* last record passed to Writer.write, also when the write of that record failed.
C1_CheckpointIsLastAttempted ==
    \A i \in Pairs : \A j \in 1..Len(hist[i].ckpt) :
        LET e == hist[i].ckpt[j] IN
        Writes(i, e.batch) # <<>> =>
            StoredOffset(e.stored) = [ret |-> ExtractOffset(LastLog(Writes(i, e.batch)))]

\* C1 amended: every non-empty batch that was processed is followed by one
\* checkpoint write, and the checkpoint then holds the offset of the last record
\* of the batch whose write completed without error (the offset of "no record"
\* when no write of the batch completed).
C1_CheckpointIsLastWritten ==
    \A i \in Pairs :
        /\ \A j \in 1..Len(hist[i].ckpt) :
              LET e == hist[i].ckpt[j] IN
              StoredOffset(e.stored) = [ret |-> ExtractOffset(LastLog(OkWrites(i, e.batch)))]
        /\ \A b \in 1..Len(hist[i].got) :
              (hist[i].got[b].run /\ hist[i].got[b].logs # <<>> /\ BatchOver(i, b))
                  => Len(Checkpoints(i, b)) = 1

\* a batch was checkpointed after two writes succeeded and the third failed
C1_Witness ==
    \E i \in Pairs : \E j \in 1..Len(hist[i].ckpt) :
        LET ws == Writes(i, hist[i].ckpt[j].batch) IN
        /\ Len(ws) = 3 /\ Failed(ws[3])
        /\ hist[i].ckpt[j].offset = JInt(ws[2].log.timestamp)

\* C2: when the writes of records 1..k of a batch succeed (k >= 1) and the write
\* of record k+1 fails with BrokenPipeError, the batch gets exactly one checkpoint
\* write, with the offset of record k, shutdown is requested exactly once, and no
\* record after k+1 is passed to the Writer.
C2_BrokenPipeAfterKWrites ==
    \A i \in Pairs : \A j \in 1..Len(hist[i].wlog) :
        LET w == hist[i].wlog[j] IN
        (w.res = "BrokenPipeError" /\ w.pos >= 2) =>
            /\ Len(Checkpoints(i, w.batch)) = 1
            /\ Checkpoints(i, w.batch)[1].offset =
                  ExtractOffset(Some(hist[i].got[w.batch].logs[w.pos - 1]))
            /\ StoredOffset(Checkpoints(i, w.batch)[1].stored) =
                  [ret |-> JInt(hist[i].got[w.batch].logs[w.pos - 1].timestamp)]
            /\ Len(Shutdowns(i, w.batch)) = 1
            /\ Len(hist[i].shut) = 1
            /\ Len(Writes(i, w.batch)) = w.pos

\* record 2 of a batch of three records failed with BrokenPipeError
C2_Witness ==
    \E i \in Pairs : \E j \in 1..Len(hist[i].wlog) :
        LET w == hist[i].wlog[j] IN
        /\ w.res = "BrokenPipeError" /\ w.pos = 2
        /\ Len(hist[i].got[w.batch].logs) = 3

\* C3: an empty batch causes no Formatter call, no Writer.write and no checkpoint
\* write; the consumer's last computed offset and the persisted checkpoint stay
\* those of the last checkpoint write.
C3_EmptyBatchChangesNothing ==
    \A i \in Pairs :
        /\ \A b \in 1..Len(hist[i].got) :
              hist[i].got[b].logs = <<>> =>
                  Formats(i, b) = <<>> /\ Writes(i, b) = <<>> /\ Checkpoints(i, b) = <<>>
        /\ cons[i].log_offset =
              IF hist[i].ckpt = <<>> THEN JNull ELSE hist[i].ckpt[Len(hist[i].ckpt)].offset
        /\ (\A k \in Pairs \ {i} : PathOf(k) # PathOf(i)) =>
              IF hist[i].ckpt = <<>> THEN PathOf(i) \notin DOMAIN fs
              ELSE fs[PathOf(i)] = hist[i].ckpt[Len(hist[i].ckpt)].stored

\* an empty batch was dequeued, while running, after a batch that was checkpointed,
\* and the consumer went back to waiting
C3_Witness ==
    \E i \in Pairs :
        LET n == Len(hist[i].got) IN
        /\ n >= 2 /\ hist[i].got[n].logs = <<>> /\ hist[i].got[n].run
        /\ hist[i].ckpt # <<>> /\ cons[i].pc = "waiting"

\* C4: a batch dequeued with the running flag false is discarded, empty or not:
\* nothing is formatted, written or checkpointed for it, and the consumer
\* terminates without dequeuing another batch.
C4_WakeAfterShutdownDiscards ==
    \A i \in Pairs : \A b \in 1..Len(hist[i].got) :
        ~ hist[i].got[b].run =>
            /\ Formats(i, b) = <<>> /\ Writes(i, b) = <<>> /\ Checkpoints(i, b) = <<>>
            /\ b = Len(hist[i].got)
            /\ cons[i].pc = "terminated"

\* a non-empty batch was dequeued after shutdown had been requested
C4_Witness ==
    \E i \in Pairs : \E b \in 1..Len(hist[i].got) :
        ~ hist[i].got[b].run /\ hist[i].got[b].logs # <<>>

\* C5 as stated: a Writer.write failure of any kind becomes a shutdown request
\* plus a checkpoint, and the consumer task ends TERMINATED with no exception.
C5_AnyWriteFailureShutsDown ==
    \A i \in Pairs : \A j \in 1..Len(hist[i].wlog) :
        LET w == hist[i].wlog[j] IN
        Failed(w) =>
            /\ Len(Checkpoints(i, w.batch)) = 1
            /\ Len(Shutdowns(i, w.batch)) = 1
            /\ cons[i].pc = "terminated"

\* C6: a consumer configured with a wire format other than CEF and JSON never
\* interacts with the Writer and never writes a checkpoint.
C6_UnsupportedFormatTouchesNothing ==
    \A i \in Pairs :
        cons[i].log_format \notin {CEF, JSON} =>
            /\ hist[i].wlog = <<>>
            /\ hist[i].ckpt = <<>>
            /\ PathOf(i) \notin DOMAIN fs

\* C9: within one stream batches are consumed in the order they were enqueued:
\* the batches dequeued are the first batches enqueued, in order; the checkpoint
\* writes follow that order; and the records passed to the Writer are the
\* concatenation, in that order, of prefixes of the enqueued batches.
RECURSIVE PrefixesUpTo(_, _)
PrefixesUpTo(i, b) ==
    IF b = 0 THEN <<>>
    ELSE PrefixesUpTo(i, b - 1) \o
         [k \in 1..Len(Writes(i, b)) |-> Stamp(enq[i][b][k], cons[i].child_account_id)]

C9_FifoWithinStream ==
    \A i \in Pairs :
        /\ Len(hist[i].got) <= Len(enq[i])
        /\ \A b \in 1..Len(hist[i].got) :
              /\ hist[i].got[b].logs = enq[i][b]
              /\ Len(Writes(i, b)) <= Len(enq[i][b])
        /\ [j \in 1..Len(hist[i].wlog) |-> hist[i].wlog[j].log]
              = PrefixesUpTo(i, Len(hist[i].got))
        /\ \A j \in 1..Len(hist[i].ckpt) : \A k \in 1..Len(hist[i].ckpt) :
              j < k => hist[i].ckpt[j].batch < hist[i].ckpt[k].batch
        /\ \A j \in 1..Len(hist[i].ckpt) :
              hist[i].ckpt[j].offset \in
                  {JNull} \cup {ExtractOffset(Some(enq[i][hist[i].ckpt[j].batch][k])) :
                                   k \in 1..Len(enq[i][hist[i].ckpt[j].batch])}

\* a consumer found two batches of different sizes waiting in its queue and has
\* checkpointed both, while the consumer of another stream was writing too
C9_Witness ==
    \E i, k \in Pairs :
        /\ i # k /\ hist[k].wlog # <<>>
        /\ Len(hist[i].ckpt) = 2
        /\ Len(enq[i][1]) = 1 /\ Len(enq[i][2]) = 3
        /\ Len(Writes(i, 2)) >= 2

----------------------------------------------------------------------------
(* Claims about LogSyncBase.start *)

\* C10: start stops (returns, or ends otherwise) only when every scheduled
\* Producer and Consumer task has reached its terminal state, also after one
\* task has ended with an exception.
C10_StoppedOnlyWhenAllTasksDone ==
    orch.pc \in {"returned", "raised"} =>
        \A j \in 1..Len(orch.tasks) : TaskDone(orch.tasks[j])

----------------------------------------------------------------------------
(* Claims about the checkpoint store *)

\* C7: a checkpoint written for (stream type, child tag) is read back, with
\* recovery enabled and the same directory, as exactly the offset written last
\* (same value, same type), whatever was stored for the pair before.
C7_CheckpointRoundTrip ==
    (/\ rd # None /\ last # None
     /\ rd[1].recover
     /\ last[1].op = "write"
     /\ last[1].log_type = rd[1].log_type
     /\ last[1].child = rd[1].child)
        => rd[1].result = [ret |-> last[1].offset]

\* a structured offset written over an earlier checkpoint of a tagged stream was
\* read back
C7_Witness ==
    /\ rd # None /\ last # None
    /\ rd[1].recover /\ last[1].op = "write" /\ last[1].over
    /\ last[1].log_type = rd[1].log_type /\ last[1].child = rd[1].child
    /\ rd[1].child = Some("c1")
    /\ IsList(last[1].offset)
    /\ Returns(rd[1].result) /\ IsList(rd[1].result.ret)

\* C8: get_log_offset never raises; when the checkpoint file is missing or its
\* content is unreadable (empty, or not valid JSON) it returns the configured
\* default offset, multiplied by 1000 for the auth stream and unscaled otherwise.
C8_ReadNeverRaises ==
    rd # None =>
        /\ Returns(rd[1].result)
        /\ (rd[1].content = None \/ Raises(JsonLoads(rd[1].content[1]))) =>
              rd[1].result =
                  [ret |-> JInt(IF rd[1].log_type = "auth" THEN ApiOffset * 1000 ELSE ApiOffset)]

----------------------------------------------------------------------------
(* C11: what LogSyncBase.start schedules *)

\* the tasks of one kind bound to queue n
TasksOn(tasks, kind, n) ==
    {j \in 1..Len(tasks) : tasks[j].kind = kind /\ tasks[j].queue = n}

\* C11: once start() has scheduled its tasks, every recognized entry of the
\* enabled list (auth, telephony, adminaction) has exactly one Producer task and
\* one Consumer task, both for that endpoint and bound to the queue of that
\* entry, which no other pair uses; all Consumers hold the same Writer; an
\* unrecognized entry has no task and no queue, raises nothing, and the entries
\* after it are still scheduled.
C11_OnePairPerRecognizedEndpoint ==
    orch.pc # "init" =>
        LET tasks == orch.tasks
            enabled == config.enabled
        IN /\ \A n \in 1..Len(enabled) :
                 IF enabled[n] \in {"auth", "telephony", "adminaction"}
                 THEN /\ Cardinality(TasksOn(tasks, "producer", n)) = 1
                      /\ Cardinality(TasksOn(tasks, "consumer", n)) = 1
                      /\ \A j \in 1..Len(tasks) :
                            tasks[j].queue = n => tasks[j].endpoint = enabled[n]
                      /\ n \in DOMAIN queue /\ n \in DOMAIN cons /\ n \in DOMAIN prod
                      /\ cons[n].log_type = enabled[n]
                 ELSE /\ TasksOn(tasks, "producer", n) = {}
                      /\ TasksOn(tasks, "consumer", n) = {}
                      /\ n \notin DOMAIN queue /\ n \notin DOMAIN cons /\ n \notin DOMAIN prod
           /\ \A j \in 1..Len(tasks) :
                 /\ tasks[j].kind \in {"producer", "consumer"}
                 /\ tasks[j].queue \in 1..Len(enabled)
           /\ \A j, k \in 1..Len(tasks) :
                 (tasks[j].kind = "consumer" /\ tasks[k].kind = "consumer")
                    => tasks[j].writer = tasks[k].writer
           /\ orch.pc = "raised" => \E j \in 1..Len(tasks) : TaskState(tasks[j]) = "raised"

\* start() went past an unrecognized first entry and scheduled the pair of the
\* entry after it, whose Consumer has processed a batch
C11_Witness ==
    /\ orch.pc = "running"
    /\ config.enabled[1] \notin Recognized
    /\ config.enabled[2] = "auth"
    /\ Len(orch.tasks) = 2
    /\ 2 \in DOMAIN hist /\ hist[2].ckpt # <<>>

----------------------------------------------------------------------------
(* get_syslog_header (consumer/syslog.py) *)

DEFAULT_PRIORITY == 38
SYSLOG_VERSION == 1
DEFAULT_FORMAT == <<"R", "F", "C", "5", "4", "2", "4">>

LowerChars == <<"a", "b", "c", "d", "e", "f", "g", "h", "i", "j", "k", "l", "m", "n", "o", "p", "q", "r", "s", "t", "u", "v", "w", "x", "y", "z">>
UpperChars == <<"A", "B", "C", "D", "E", "F", "G", "H", "I", "J", "K", "L", "M", "N", "O", "P", "Q", "R", "S", "T", "U", "V", "W", "X", "Y", "Z">>

\* str.upper: a lower-case letter becomes its capital, any other character stays
UpperChar(ch) ==
    IF \E k \in 1..26 : LowerChars[k] = ch
    THEN UpperChars[CHOOSE k \in 1..26 : LowerChars[k] = ch]
    ELSE ch

\* format.upper() (faulty variant: the format is compared as given)
UpperMissing(text) == text
Upper(text) == [k \in 1..Len(text) |-> UpperChar(text[k])]

\* a number printed in at least width digits, padded with zeros ("%02d")
ZeroPad(n, width) == [j \in 1..(width - Len(NatText(n))) |-> "0"] \o NatText(n)

\* a timezone-aware datetime: calendar fields, microseconds, and the offset of
\* its tzinfo from UTC in minutes
DateTime(year, month, day, hour, minute, second, microsecond, utcoffset) ==
    [year |-> year, month |-> month, day |-> day, hour |-> hour, minute |-> minute,
     second |-> second, microsecond |-> microsecond, utcoffset |-> utcoffset]

\* the "+HH:MM" suffix isoformat appends for an aware datetime
UtcOffsetText(minutes) ==
    (IF minutes < 0 THEN <<"-">> ELSE <<"+">>)
        \o ZeroPad((IF minutes < 0 THEN 0 - minutes ELSE minutes) \div 60, 2) \o <<":">>
        \o ZeroPad((IF minutes < 0 THEN 0 - minutes ELSE minutes) % 60, 2)

\* timestamp.isoformat(sep='T', timespec='milliseconds'): the microseconds are
\* truncated to milliseconds
IsoFormat(timestamp) ==
    ZeroPad(timestamp.year, 4) \o <<"-">> \o ZeroPad(timestamp.month, 2) \o <<"-">>
        \o ZeroPad(timestamp.day, 2) \o <<"T">>
        \o ZeroPad(timestamp.hour, 2) \o <<":">> \o ZeroPad(timestamp.minute, 2) \o <<":">>
        \o ZeroPad(timestamp.second, 2) \o <<".">>
        \o ZeroPad(timestamp.microsecond \div 1000, 3)
        \o UtcOffsetText(timestamp.utcoffset)

\* %b in the C locale
MonthAbbr ==
    <<<<"J", "a", "n">>,
      <<"F", "e", "b">>,
      <<"M", "a", "r">>,
      <<"A", "p", "r">>,
      <<"M", "a", "y">>,
      <<"J", "u", "n">>,
      <<"J", "u", "l">>,
      <<"A", "u", "g">>,
      <<"S", "e", "p">>,
      <<"O", "c", "t">>,
      <<"N", "o", "v">>,
      <<"D", "e", "c">>>>

\* timestamp.strftime("%b %d %H:%M:%S")
StrfTime(timestamp) ==
    MonthAbbr[timestamp.month] \o <<" ">> \o ZeroPad(timestamp.day, 2) \o <<" ">>
        \o ZeroPad(timestamp.hour, 2) \o <<":">> \o ZeroPad(timestamp.minute, 2) \o <<":">>
        \o ZeroPad(timestamp.second, 2)

\* socket.gethostname() on the machine of the model
Hostname == <<"h", "o", "s", "t", "1">>

\* get_syslog_header(format, timestamp, priority)
GetSyslogHeader(format, timestamp, priority) ==
    LET syslog_pri == <<"<">> \o IntText(priority) \o <<">">> IN
    IF Upper(format) = <<"R", "F", "C", "5", "4", "2", "4">>
    THEN [ret |-> JoinTexts(<<JoinTexts(<<syslog_pri \o NatText(SYSLOG_VERSION),
                                          IsoFormat(timestamp)>>, <<" ">>),
                              Hostname>>, <<" ">>)]
    ELSE IF Upper(format) = <<"R", "F", "C", "3", "1", "6", "4">>
    THEN [ret |-> JoinTexts(<<JoinTexts(<<syslog_pri, StrfTime(timestamp)>>, <<>>),
                              Hostname>>, <<" ">>)]
    ELSE [raises |-> "ValueError"]

----------------------------------------------------------------------------
(* The header generator on its own: get_syslog_header is called with a format *)
(* name, the UTC timestamp of a record and a priority                         *)

HeaderFormats ==
    {<<"R", "F", "C", "5", "4", "2", "4">>, <<"R", "F", "C", "3", "1", "6", "4">>,
     <<"r", "f", "c", "5", "4", "2", "4">>, <<"R", "f", "c", "3", "1", "6", "4">>,
     <<"R", "F", "C", "5", "4", "2", "5">>, <<"J", "S", "O", "N">>, <<>>}

\* datetime.fromtimestamp(log["timestamp"], tz=timezone.utc) for a few records
HeaderTimestamps ==
    {DateTime(2024, month, day, hour, 4, 5, microsecond, 0) :
        month \in {1, 12}, day \in {2, 31}, hour \in {3, 23},
        microsecond \in {0, 678000, 678999}}

HeaderPriorities == {DEFAULT_PRIORITY, 165}

HeaderCall(format, timestamp, priority) ==
    /\ hdr' = Some([format |-> format, timestamp |-> timestamp, priority |-> priority,
                    result |-> GetSyslogHeader(format, timestamp, priority)])
    /\ UNCHANGED <<config, orch, running, prod, cons, queue, fs, hist, enq, nextTs,
                   last, nops, rd, slp>>

InitHdr ==
    /\ config = [enabled |-> <<>>, log_format |-> JSON, children |-> <<>>]
    /\ orch = [pc |-> "init", tasks |-> <<>>]
    /\ running = TRUE
    /\ prod = <<>> /\ cons = <<>> /\ queue = <<>> /\ hist = <<>> /\ enq = <<>> /\ nextTs = <<>>
    /\ fs = NoFiles
    /\ last = None /\ nops = 0 /\ rd = None
    /\ hdr = None /\ slp = None

NextHdr ==
    \E format \in HeaderFormats, timestamp \in HeaderTimestamps,
       priority \in HeaderPriorities : HeaderCall(format, timestamp, priority)

SpecHdr == InitHdr /\ [][NextHdr]_vars

----------------------------------------------------------------------------
(* C12: the syslog header *)

\* reading a header back: the number a run of digits stands for
RECURSIVE NumberOf(_)
NumberOf(text) ==
    IF text = <<>> THEN 0
    ELSE NumberOf(SubSeq(text, 1, Len(text) - 1)) * 10 + DigitVal(text[Len(text)])

\* characters a..b of text are digits and stand for the number v
Field(text, a, b, v) ==
    /\ \A k \in a..b : IsDigit(text[k])
    /\ NumberOf(SubSeq(text, a, b)) = v

\* stamp is the ISO-8601 form "YYYY-MM-DDTHH:MM:SS.mmm+00:00" of a UTC timestamp
IsIsoMillisUtc(stamp, timestamp) ==
    /\ Len(stamp) = 29
    /\ Field(stamp, 1, 4, timestamp.year) /\ stamp[5] = "-"
    /\ Field(stamp, 6, 7, timestamp.month) /\ stamp[8] = "-"
    /\ Field(stamp, 9, 10, timestamp.day) /\ stamp[11] = "T"
    /\ Field(stamp, 12, 13, timestamp.hour) /\ stamp[14] = ":"
    /\ Field(stamp, 15, 16, timestamp.minute) /\ stamp[17] = ":"
    /\ Field(stamp, 18, 19, timestamp.second) /\ stamp[20] = "."
    /\ Field(stamp, 21, 23, timestamp.microsecond \div 1000)
    /\ SubSeq(stamp, 24, 29) = <<"+", "0", "0", ":", "0", "0">>

\* stamp is the BSD form "Mon DD HH:MM:SS" of a timestamp
IsBsdStamp(stamp, timestamp) ==
    /\ Len(stamp) = 15
    /\ SubSeq(stamp, 1, 3) = MonthAbbr[timestamp.month] /\ stamp[4] = " "
    /\ Field(stamp, 5, 6, timestamp.day) /\ stamp[7] = " "
    /\ Field(stamp, 8, 9, timestamp.hour) /\ stamp[10] = ":"
    /\ Field(stamp, 11, 12, timestamp.minute) /\ stamp[13] = ":"
    /\ Field(stamp, 14, 15, timestamp.second)

\* the call returned: prefix, then a stamp of n characters, a space, the hostname
HeaderShape(result, prefix, n) ==
    /\ Returns(result)
    /\ Len(result.ret) = Len(prefix) + n + 1 + Len(Hostname)
    /\ SubSeq(result.ret, 1, Len(prefix)) = prefix
    /\ SubSeq(result.ret, Len(prefix) + n + 1, Len(result.ret)) = <<" ">> \o Hostname

StampOf(result, prefix, n) == SubSeq(result.ret, Len(prefix) + 1, Len(prefix) + n)

\* the header of an RFC5424 call: "<priority>1", space, timestamp, space, hostname
IsRfc5424Header(h) ==
    LET prefix == <<"<">> \o NatText(h.priority) \o <<">", "1", " ">> IN
    /\ HeaderShape(h.result, prefix, 29)
    /\ IsIsoMillisUtc(StampOf(h.result, prefix, 29), h.timestamp)

\* the header of an RFC3164 call: "<priority>" and at once the timestamp, space, hostname
IsRfc3164Header(h) ==
    LET prefix == <<"<">> \o NatText(h.priority) \o <<">">> IN
    /\ HeaderShape(h.result, prefix, 15)
    /\ IsBsdStamp(StampOf(h.result, prefix, 15), h.timestamp)

\* a and b are the same text up to the case of their letters
SameIgnoringCase(a, b) ==
    /\ Len(a) = Len(b)
    /\ \A k \in 1..Len(a) :
          \/ a[k] = b[k]
          \/ \E j \in 1..26 : {a[k], b[k]} = {LowerChars[j], UpperChars[j]}

\* C12 as stated: every format other than exactly 'RFC5424' or 'RFC3164' fails
\* with a configuration error, and the two exact names give the two headers.
C12_OnlyExactNamesAccepted ==
    hdr # None =>
        LET h == hdr[1] IN
        /\ h.format \notin {<<"R", "F", "C", "5", "4", "2", "4">>, <<"R", "F", "C", "3", "1", "6", "4">>} => Raises(h.result)
        /\ h.format = <<"R", "F", "C", "5", "4", "2", "4">> => IsRfc5424Header(h)
        /\ h.format = <<"R", "F", "C", "3", "1", "6", "4">> => IsRfc3164Header(h)

\* C12 (amended): get_syslog_header compares the format name without regard to
\* the case of its letters: a name that is RFC5424 up to case gives
\* "<priority>1", space, the millisecond ISO-8601 timestamp with its UTC offset,
\* space, hostname; a name that is RFC3164 up to case gives "<priority>" followed
\* at once by "Mon DD HH:MM:SS", space, hostname; every other name raises.
C12_NamesAcceptedInAnyCase ==
    hdr # None =>
        LET h == hdr[1] IN
        IF SameIgnoringCase(h.format, <<"R", "F", "C", "5", "4", "2", "4">>) THEN IsRfc5424Header(h)
        ELSE IF SameIgnoringCase(h.format, <<"R", "F", "C", "3", "1", "6", "4">>) THEN IsRfc3164Header(h)
        ELSE h.result = [raises |-> "ValueError"]

\* the header of 2024-01-02T03:04:05.678999Z at priority 38, asked for as 'rfc5424'
C12_Witness ==
    /\ hdr # None
    /\ hdr[1].format = <<"r", "f", "c", "5", "4", "2", "4">>
    /\ hdr[1].timestamp = DateTime(2024, 1, 2, 3, 4, 5, 678999, 0)
    /\ hdr[1].priority = 38
    /\ hdr[1].result = [ret |-> <<"<", "3", "8", ">", "1", " ", "2", "0", "2", "4", "-", "0", "1", "-", "0", "2", "T", "0", "3", ":", "0", "4", ":", "0", "5", ".", "6", "7", "8", "+", "0", "0", ":", "0", "0", " ", "h", "o", "s", "t", "1">>]

----------------------------------------------------------------------------
(* C13, C14: shutdown requested while a batch is in progress *)

\* C13: the Consumer re-checks the running flag after every suspension point,
\* the awaited Writer.write included, before it passes a further record to the
\* Writer: every record passed to the Writer was passed while the program was
\* still running.
C13_NoWriteStartedAfterShutdown ==
    \A i \in Pairs : \A k \in 1..Len(hist[i].wlog) : hist[i].wlog[k].run

\* C14: shutdown does not pre-empt a Consumer.  A write in flight is never
\* abandoned: it stays the Consumer's current step until the Writer lets it
\* finish or fail; and a Consumer that has ended has performed the checkpoint
\* write of every non-empty batch it started, the one in progress when another
\* component requested shutdown included.
C14_ShutdownNotPreemptive ==
    \A i \in Pairs :
        /\ \A k \in 1..Len(hist[i].wlog) :
              hist[i].wlog[k].res = "pending"
                 => (k = Len(hist[i].wlog) /\ cons[i].pc = "writing")
        /\ cons[i].pc \in {"terminated", "raised"} =>
              \A b \in 1..Len(hist[i].got) :
                 (hist[i].got[b].run /\ hist[i].got[b].logs # <<>>)
                    => /\ Len(Checkpoints(i, b)) = 1
                       /\ \A k \in 1..Len(Writes(i, b)) : Writes(i, b)[k].res # "pending"

\* a Consumer that never requested shutdown itself has terminated after a batch
\* of three records: shutdown was requested by another component while its
\* first write was in flight, the write and the rest of the batch were
\* completed and the batch was checkpointed
C14_Witness ==
    \E i \in Pairs :
        LET b == Len(hist[i].got) IN
        /\ cons[i].pc = "terminated"
        /\ hist[i].shut = <<>>
        /\ b >= 1 /\ hist[i].got[b].run /\ Len(hist[i].got[b].logs) = 3
        /\ Len(OkWrites(i, b)) = 3
        /\ Writes(i, b)[1].run /\ ~ Writes(i, b)[2].run
        /\ Len(Checkpoints(i, b)) = 1
        /\ Checkpoints(i, b)[1].offset = JInt(hist[i].got[b].logs[3].timestamp)

----------------------------------------------------------------------------
(* C15: termination after a shutdown request *)

\* nothing is left to run: no task can take a step and run_until_complete has
\* returned or raised.  Every run of the pipeline is finite (the Producers put
\* a bounded number of batches and every step of a Consumer consumes a record
\* or a batch), so under fair scheduling every run ends in such a state
Quiescent == ~ ENABLED Next

\* C15: under fair scheduling, once global shutdown has been requested every
\* Consumer eventually reaches TERMINATED (its Producer puts one more batch
\* after the request): when nothing is left to run after a shutdown request,
\* every Consumer is TERMINATED; and a Consumer that requested the shutdown
\* itself is TERMINATED without taking a further batch.
C15_ShutdownLeadsToTermination ==
    /\ (~ running /\ Quiescent) => \A i \in Pairs : cons[i].pc = "terminated"
    /\ \A i \in Pairs : hist[i].shut # <<>> =>
           (cons[i].pc = "terminated" /\ Len(hist[i].got) = hist[i].shut[1])

----------------------------------------------------------------------------
(* C16: the first write of a batch fails *)

\* C16: when the write of the first record of a batch fails with a connection
\* reset (BrokenPipeError), so that no record of the batch was written, consume
\* still performs the checkpoint write of the batch, with the offset extracted
\* from no record; that value replaces whatever was persisted for the stream
\* before, and shutdown is requested.
C16_FirstWriteResetStillCheckpoints ==
    \A i \in Pairs : \A j \in 1..Len(hist[i].wlog) :
        LET w == hist[i].wlog[j] IN
        (w.res = "BrokenPipeError" /\ w.pos = 1) =>
            /\ OkWrites(i, w.batch) = <<>>
            /\ Len(Checkpoints(i, w.batch)) = 1
            /\ Checkpoints(i, w.batch)[1].offset = ExtractOffset(None)
            /\ Checkpoints(i, w.batch)[1].stored = JsonDumps(ExtractOffset(None)) \o <<"\n">>
            /\ (\A k \in Pairs \ {i} : PathOf(k) # PathOf(i)) =>
                  (/\ PathOf(i) \in DOMAIN fs
                   /\ fs[PathOf(i)] = Checkpoints(i, w.batch)[1].stored)
            /\ cons[i].log_offset = ExtractOffset(None)
            /\ Len(Shutdowns(i, w.batch)) = 1
            /\ ~ running

\* the first write of a second batch failed with BrokenPipeError after the first
\* batch had been written and checkpointed with the offset of its last record:
\* the persisted checkpoint of the stream is now that of no record
C16_Witness ==
    \E i \in Pairs : \E j \in 1..Len(hist[i].wlog) :
        LET w == hist[i].wlog[j] IN
        /\ w.res = "BrokenPipeError" /\ w.pos = 1 /\ w.batch = 2
        /\ Len(Checkpoints(i, 1)) = 1
        /\ IsInt(Checkpoints(i, 1)[1].offset)
        /\ StoredOffset(Checkpoints(i, 1)[1].stored) = [ret |-> Checkpoints(i, 1)[1].offset]
        /\ fs[PathOf(i)] = JsonDumps(ExtractOffset(None)) \o <<"\n">>
        /\ fs[PathOf(i)] # Checkpoints(i, 1)[1].stored

----------------------------------------------------------------------------
(* restless_sleep (util.py) on its own: one call, while any other component   *)
(* may request shutdown at any moment                                         *)

\* largest duration restless_sleep is called with
MaxDuration == 8

\* "while duration > 0": suspend in asyncio.sleep(1), or return
WhileTest(call) ==
    IF call.duration > 0 THEN [call EXCEPT !.pc = "sleeping"]
    ELSE [call EXCEPT !.pc = "returned"]

\* faulty variant of the body after the sleep: the flag is polled only once the
\* whole duration is over
AfterSleepPollAtEnd(call, is_running) ==
    LET c == [call EXCEPT !.sleeps = @ + 1, !.seen = Append(@, is_running)] IN
    IF c.duration - 1 > 0 \/ is_running
    THEN WhileTest([c EXCEPT !.duration = @ - 1])
    ELSE [c EXCEPT !.pc = "raised"]

\* the body of the loop after asyncio.sleep(1) returned: poll the flag, then
\* count the second down or raise ProgramShutdownError
AfterSleep(call, is_running) ==
    LET c == [call EXCEPT !.sleeps = @ + 1, !.seen = Append(@, is_running)] IN
    IF is_running
    THEN WhileTest([c EXCEPT !.duration = @ - 1])
    ELSE [c EXCEPT !.pc = "raised"]

\* restless_sleep(duration) is called and runs to its first suspension
\* arg: the duration asked for; sleeps: the one-second sleeps completed;
\* seen: the value of the flag at each poll; requested: the number of sleeps
\* completed when shutdown was requested
SleepCall(duration) ==
    /\ slp = None
    /\ slp' = Some(WhileTest([pc |-> "called", arg |-> duration, duration |-> duration,
                              sleeps |-> 0, seen |-> <<>>,
                              requested |-> IF running THEN None ELSE Some(0)]))
    /\ UNCHANGED <<config, orch, running, prod, cons, queue, fs, hist, enq, nextTs,
                   last, nops, rd, hdr>>

\* asyncio.sleep(1) is over
SleepOver ==
    /\ slp # None /\ slp[1].pc = "sleeping"
    /\ slp' = Some(AfterSleep(slp[1], running))
    /\ UNCHANGED <<config, orch, running, prod, cons, queue, fs, hist, enq, nextTs,
                   last, nops, rd, hdr>>

\* another component calls Program.initiate_shutdown
SleepShutdown ==
    /\ running
    /\ running' = FALSE
    /\ slp' = IF slp = None THEN None
              ELSE Some([slp[1] EXCEPT !.requested = Some(slp[1].sleeps)])
    /\ UNCHANGED <<config, orch, prod, cons, queue, fs, hist, enq, nextTs,
                   last, nops, rd, hdr>>

InitSleep ==
    /\ config = [enabled |-> <<>>, log_format |-> JSON, children |-> <<>>]
    /\ orch = [pc |-> "init", tasks |-> <<>>]
    /\ running = TRUE
    /\ prod = <<>> /\ cons = <<>> /\ queue = <<>> /\ hist = <<>> /\ enq = <<>> /\ nextTs = <<>>
    /\ fs = NoFiles
    /\ last = None /\ nops = 0 /\ rd = None
    /\ hdr = None /\ slp = None

NextSleep ==
    \/ \E duration \in -1..MaxDuration : SleepCall(duration)
    \/ SleepOver
    \/ SleepShutdown

SpecSleep == InitSleep /\ [][NextSleep]_vars

\* C17: restless_sleep(duration) with the program running at every poll returns
\* after exactly duration one-second sleeps; it raises ProgramShutdownError at
\* the first poll that finds the flag down, so that a sleeping task sees a
\* shutdown request after at most one further one-second sleep; and for
\* duration <= 0 it returns at once, without sleeping or polling the flag.
C17_RestlessSleep ==
    slp # None =>
        LET call == slp[1]
            polls == Len(call.seen)
        IN /\ polls = call.sleeps
           /\ \A k \in 1..(polls - 1) : call.seen[k]
           /\ call.pc \in {"sleeping", "returned", "raised"}
           /\ call.pc = "returned" =>
                 IF call.arg <= 0 THEN call.sleeps = 0 /\ polls = 0
                 ELSE call.sleeps = call.arg /\ \A k \in 1..polls : call.seen[k]
           /\ call.pc = "raised" =>
                 /\ polls >= 1 /\ ~ call.seen[polls]
                 /\ call.sleeps <= call.arg
                 /\ call.requested # None /\ call.sleeps = call.requested[1] + 1
           /\ call.pc = "sleeping" =>
                 /\ \A k \in 1..polls : call.seen[k]
                 /\ call.sleeps < call.arg
                 /\ call.requested # None => call.sleeps = call.requested[1]

\* a sleep of five seconds was cut short: shutdown was requested during the
\* third second and the call raised at the end of that second
C17_Witness ==
    /\ slp # None
    /\ slp[1].arg = 5 /\ slp[1].pc = "raised"
    /\ slp[1].requested = Some(2) /\ slp[1].sleeps = 3

----------------------------------------------------------------------------
(* C18: at-least-once delivery across a restart *)

\* a write of the record with this offset completed without error
Delivered(i, offset) ==
    \E k \in 1..Len(hist[i].wlog) :
        /\ hist[i].wlog[k].res = "ok"
        /\ ExtractOffset(Some(hist[i].wlog[k].log)) = offset

\* the offset of no record was ever persisted for pair i
NoneNeverPersisted(i) ==
    \A k \in 1..Len(hist[i].ckpt) : hist[i].ckpt[k].offset # ExtractOffset(None)

\* C18: provided the offset of no record is never persisted, the persisted
\* checkpoint of a stream is at all times the offset of a record whose write
\* completed without error, and every record the Producer enqueued at or before
\* that offset has been delivered: a restart from the checkpoint skips no
\* undelivered record.
C18_AtLeastOnceAcrossRestart ==
    \A i \in Pairs :
        (/\ \A k \in Pairs \ {i} : PathOf(k) # PathOf(i)
         /\ NoneNeverPersisted(i)
         /\ PathOf(i) \in DOMAIN fs) =>
            LET stored == StoredOffset(fs[PathOf(i)])
                records == Flatten(enq[i])
            IN /\ Returns(stored)
               /\ Delivered(i, stored.ret)
               /\ \A q \in 1..Len(records) :
                     records[q].timestamp <= stored.ret.int
                        => Delivered(i, ExtractOffset(Some(records[q])))

\* the checkpoint of a stream is the offset of the first record of its second
\* batch: the write of the record after it failed, so the records after the
\* checkpoint are undelivered and a restart fetches them again
C18_Witness ==
    \E i \in Pairs : \E j \in 1..Len(hist[i].wlog) :
        LET w == hist[i].wlog[j] IN
        /\ Failed(w) /\ w.batch = 2 /\ w.pos = 2
        /\ NoneNeverPersisted(i)
        /\ Len(hist[i].got[2].logs) = 3
        /\ StoredOffset(fs[PathOf(i)]) = [ret |-> ExtractOffset(Some(hist[i].got[2].logs[1]))]
        /\ ~ Delivered(i, ExtractOffset(Some(hist[i].got[2].logs[3])))

----------------------------------------------------------------------------
(* C19: checkpoints of different streams *)

\* what is persisted for a (stream type, child-account tag) pair, as a later
\* run finds it: the text of the pair's checkpoint file, if there is one
PersistedText(files, log_type, child_account_id) ==
    LET path == ReadCheckpointPath(CheckpointDir, log_type, child_account_id) IN
    IF path \in DOMAIN files THEN Some(files[path]) ELSE None

\* two tags name the same stream of a type: they are equal, or each is absent or empty
SameTag(c1, c2) == c1 = c2 \/ {c1, c2} \subseteq {None, Some("")}

\* C19: a checkpoint write for a (stream type, child-account tag) pair, complete
\* or cut short, changes what is persisted for that pair only and leaves what is
\* persisted for every other pair as it was, in whatever order the writes of
\* the streams follow each other; a complete write makes its offset the pair's
\* persisted text; and an empty tag is no tag: it shares the record of the
\* untagged stream of its type.
C19_CheckpointIsolation ==
    [][nops' # nops =>
          LET op == last'[1] IN
          /\ \A t \in LogTypes, c \in ChildIds :
                (t # op.log_type \/ ~ SameTag(c, op.child))
                    => PersistedText(fs', t, c) = PersistedText(fs, t, c)
          /\ op.op = "write" =>
                PersistedText(fs', op.log_type, op.child)
                    = Some(JsonDumps(op.offset) \o <<"\n">>)
          /\ \A t \in LogTypes :
                PersistedText(fs', t, Some("")) = PersistedText(fs', t, None)]_vars

\* a checkpoint was written with an empty tag after one with tag c1 for the same
\* stream type: the empty-tag write is what the untagged stream finds, and the
\* record of c1 is still there, with another offset
C19_Witness ==
    /\ last # None /\ last[1].op = "write" /\ last[1].child = Some("")
    /\ PersistedText(fs, last[1].log_type, None) = Some(JsonDumps(last[1].offset) \o <<"\n">>)
    /\ PersistedText(fs, last[1].log_type, Some("c1")) # None
    /\ PersistedText(fs, last[1].log_type, Some("c1"))
          # PersistedText(fs, last[1].log_type, None)

----------------------------------------------------------------------------
(* C20: the record passed to the Formatter *)

\* C20: the k-th record a Consumer passes to the Formatter for a batch is the
\* k-th record of the batch as enqueued; a Consumer with a child-account tag
\* passes it with child_account_id set to its tag and every other field as
\* enqueued, a Consumer without a tag passes it unmodified.
C20_FormatterInput ==
    \A i \in Pairs : \A b \in 1..Len(hist[i].got) :
        /\ hist[i].got[b].logs = enq[i][b]
        /\ Len(Formats(i, b)) <= Len(enq[i][b])
        /\ \A k \in 1..Len(Formats(i, b)) :
              LET passed == Formats(i, b)[k].log
                  record == enq[i][b][k]
              IN IF cons[i].child_account_id \notin {None, Some("")}
                 THEN /\ DOMAIN passed = DOMAIN record \cup {"child_account_id"}
                      /\ passed.child_account_id = cons[i].child_account_id[1]
                      /\ \A f \in DOMAIN record \ {"child_account_id"} :
                            passed[f] = record[f]
                 ELSE passed = record

\* the Consumer tagged c1 and the untagged Consumer have both passed the second
\* record of a batch to the Formatter
C20_Witness ==
    \E i, j \in Pairs :
        /\ cons[i].child_account_id = Some("c1")
        /\ cons[j].child_account_id = None
        /\ \E b \in 1..Len(hist[i].got) : Len(Formats(i, b)) >= 2
        /\ \E b \in 1..Len(hist[j].got) : Len(Formats(j, b)) >= 2

====
